---------------------------- MODULE Spec2Model ----------------------------
(***************************************************************************)
(* Model of the robotic-arm control GUI (GUI for Robotic Arm Control.py):  *)
(* the PIDController class, the controller_listener loop (event handling,  *)
(* hold-mode PID dispatch, manual joystick dispatch, command               *)
(* de-duplication), the telemetry decoder of process_gui_queue and the     *)
(* connect / disconnect life cycle of the serial port and its two threads. *)
(*                                                                         *)
(* Units.  Time is counted in units of 50 ms (time.time() is in seconds:   *)
(* 1 s = 20 units).  Gains are integers in units of 1e-4.  A PID output is *)
(* the exact rational <<num, den>>, den > 0.  integral_error holds the sum *)
(* of error * dt with dt in time units (20 times the value in the code).   *)
(* Stick deflections are in thousandths (0.15 = 150).                      *)
(***************************************************************************)
EXTENDS Integers, Sequences, FiniteSets, TLC

VARIABLES
    now,                \* last value of current_time read by the control loop
    steps,              \* number of loop iterations and telemetry lines so far
    joy,                \* physical state of sticks and bumpers (pygame joystick)
    pid_states,         \* App.pid_states
    current_encoders,   \* App.current_encoders
    pid_controllers,    \* App.pid_controllers (state of each PIDController)
    last_press_times,   \* App.last_press_times
    all_motors_zero_active, \* App._all_motors_zero_active
    last_commands,      \* local last_commands of controller_listener
    wire,               \* per channel, the last command written to the port
    writes,             \* commands written by the most recent loop iteration
    prevWire,           \* wire as the most recent loop iteration found it
    lastInput,          \* the event handled by the most recent loop iteration
    lastLine,           \* the line of the most recent update_encoders message
    pid_output,         \* per axis, the last value of the local pid_output
    acted,              \* per control, when its action was last invoked
    afterEvents,        \* pid_states and pid_controllers as the event loop of
                        \*   the most recent loop iteration left them
    pidT,               \* PIDSpec: the PIDController under test
    pidAxis,            \* PIDSpec: whose gains it was constructed with
    pidClock,           \* PIDSpec: time.time()
    pidRet,             \* PIDSpec: value returned by the last update
    pidOp,              \* PIDSpec: the last call made
    pidUpdates,         \* PIDSpec: update calls since construction/set_setpoint
    pidCalls,           \* PIDSpec: calls made so far
    serial_port,        \* LifeSpec: App.serial_port ("none", "open", "closed")
    stop_threads,       \* LifeSpec: App.stop_threads (threading.Event)
    ctl,                \* LifeSpec: where each controller thread is
    rdr,                \* LifeSpec: where each serial reader thread is
    main,               \* LifeSpec: where the GUI thread is
    pending,            \* LifeSpec: per controller thread, the send_command
                        \*   calls left in its loop iteration
    closedWrite,        \* LifeSpec: a write was issued on a closed port
    writeFailed,        \* LifeSpec: the controller thread whose write on the
                        \*   open port raised SerialException (0: none)
    sessions            \* LifeSpec: number of successful connect calls

ctlVars == <<now, steps, joy, pid_states, current_encoders, pid_controllers,
             last_press_times, all_motors_zero_active, last_commands, wire,
             writes, prevWire, lastInput, lastLine, pid_output, acted,
             afterEvents>>
pidVars == <<pidT, pidAxis, pidClock, pidRet, pidOp, pidUpdates, pidCalls>>
lifeVars == <<serial_port, stop_threads, ctl, rdr, main, pending,
              closedWrite, writeFailed, sessions>>
vars == <<ctlVars, pidVars, lifeVars>>

---------------------------------------------------------------------------
(* Bounds of the model *)

\* loop iterations plus telemetry lines explored
MaxSteps == 3
\* clock value (in 50 ms units) when the control loop starts
T0 == 100
\* calls made on the PIDController under test
MaxPidCalls == 4
\* connect calls explored
MaxSessions == 2
\* send_command calls made by one loop iteration in LifeSpec
MaxSends == 2

\* time between two loop iterations: 50 ms, 300 ms
Dts == {1, 6}
\* time before a loop iteration that finds an event (events are explored at
\* the longer spacing only: 250 ms apart, or more with iterations between)
EventDts == {5}
\* time between two calls of PIDController.update under test; time.time()
\* follows the system clock, which can be set back between two calls
PidDts == {-1, 0, 1, 5}
\* encoder readings and setpoints given to the PIDController under test
PidVals == {-300, 0, 3, 300}

---------------------------------------------------------------------------
(* Program constants *)

HoldMotors == {"M1", "M2", "M3", "M4", "S2", "S3"}
Motors == HoldMotors \cup {"S1"}
\* iteration order of the pid_controllers / pid_states dicts
MotorOrder == <<"M1", "M2", "M3", "M4", "S2", "S3">>

MOTOR_MAP == [m \in Motors |->
    CASE m = "M1" -> 1 [] m = "M2" -> 2 [] m = "M3" -> 3 [] m = "M4" -> 4
      [] m = "S1" -> 5 [] m = "S2" -> 6 [] m = "S3" -> 7]

JOYSTICK_DEADZONE == 150
PID_TARGET_THRESHOLD == 5
DPAD_DEBOUNCE_DELAY == 10
BUTTON_DEBOUNCE_DELAY == 6

\* PIDController gains of each axis, in units of 1e-4
Kp == [m \in HoldMotors |->
    CASE m = "M1" -> 6000 [] m = "M2" -> 8000 [] m = "M3" -> 5000
      [] m = "M4" -> 8000 [] m = "S2" -> 8000 [] m = "S3" -> 9500]
Ki == [m \in HoldMotors |-> 50]
Kd == [m \in HoldMotors |->
    CASE m = "M1" -> 1 [] m = "M2" -> 1000 [] m = "M3" -> 1000
      [] m = "M4" -> 1000 [] m = "S2" -> 1000 [] m = "S3" -> 100]
\* output_limits=(-255, 255)
OutMin == -255
OutMax == 255

None == -1
NoCmd == <<>>

Abs(x) == IF x < 0 THEN -x ELSE x
Min(a, b) == IF a < b THEN a ELSE b

---------------------------------------------------------------------------
(* class PIDController *)

PIDController == [setpoint |-> 0, last_error |-> 0, integral_error |-> 0,
                  last_time |-> None]

\* variant of set_setpoint that keeps last_time
set_setpoint_keep_time(p, sp) ==
    [setpoint |-> sp, integral_error |-> 0, last_error |-> 0,
     last_time |-> p.last_time]

\* variant of set_setpoint that keeps integral_error
set_setpoint_keep_integral(p, sp) ==
    [setpoint |-> sp, integral_error |-> p.integral_error, last_error |-> 0,
     last_time |-> None]

set_setpoint(p, sp) ==
    [setpoint |-> sp, integral_error |-> 0, last_error |-> 0,
     last_time |-> None]

\* variant of Clamp that returns the output as computed
Clamp_none(num, den) == <<num, den>>

\* max(output_limits[0], min(output_limits[1], output)) on num/den
Clamp(num, den) ==
    IF num > OutMax * den THEN <<OutMax, 1>>
    ELSE IF num < OutMin * den THEN <<OutMin, 1>>
    ELSE <<num, den>>

\* variant of update that records the error when no time has passed
update_zero_dt_record(m, p, current_value, t) ==
    IF p.last_time = None
    THEN [pid |-> [p EXCEPT !.last_time = t], out |-> <<0, 1>>]
    ELSE LET dt == t - p.last_time IN
         IF dt = 0
         THEN [pid |-> [p EXCEPT !.last_error = p.setpoint - current_value],
               out |-> <<0, 1>>]
         ELSE LET error == p.setpoint - current_value
                  integ == p.integral_error + error * dt
                  raw == 20 * Kp[m] * error * dt + Ki[m] * integ * dt
                         + 400 * Kd[m] * (error - p.last_error)
                  num == IF dt < 0 THEN -raw ELSE raw
                  den == 200000 * Abs(dt)
              IN [pid |-> [setpoint |-> p.setpoint,
                           integral_error |-> integ,
                           last_error |-> error,
                           last_time |-> t],
                  out |-> Clamp(num, den)]

\* update(current_value) called on the controller of axis m at time t:
\* the new state of the controller and the value returned
update(m, p, current_value, t) ==
    IF p.last_time = None
    THEN [pid |-> [p EXCEPT !.last_time = t], out |-> <<0, 1>>]
    ELSE LET dt == t - p.last_time IN
         IF dt = 0 THEN [pid |-> p, out |-> <<0, 1>>]
         ELSE LET error == p.setpoint - current_value
                  integ == p.integral_error + error * dt
                  \* output * (200000 * dt), see Units
                  raw == 20 * Kp[m] * error * dt + Ki[m] * integ * dt
                         + 400 * Kd[m] * (error - p.last_error)
                  \* the same fraction with a positive denominator
                  num == IF dt < 0 THEN -raw ELSE raw
                  den == 200000 * Abs(dt)
              IN [pid |-> [setpoint |-> p.setpoint,
                           integral_error |-> integ,
                           last_error |-> error,
                           last_time |-> t],
                  out |-> Clamp(num, den)]

---------------------------------------------------------------------------
(* Axis state table operations of class App.  They work on the record s    *)
(* of what one loop iteration has done so far: ps = pid_states,            *)
(* pc = pid_controllers, lpt = last_press_times,                           *)
(* az = _all_motors_zero_active, lc = last_commands, w = commands written, *)
(* out = pid_output, act = acted, snap = afterEvents.                      *)

Cmd(m, direction, speed) == <<MOTOR_MAP[m], direction, speed>>
StopCmd(m) == Cmd(m, "s", 0)

\* send_command with the port open and the write succeeding
send_command(s, command) == [s EXCEPT !.w = Append(@, command)]

update_pid_ui(s, motor_name) ==
    IF s.ps[motor_name].enabled THEN s
    ELSE send_command(s, StopCmd(motor_name))

\* variant of toggle_pid that does not call set_setpoint
toggle_pid_no_prime(s, motor_name, set_to_zero) ==
    LET en == ~ s.ps[motor_name].enabled
        tgt == IF en /\ set_to_zero THEN 0 ELSE s.ps[motor_name].target
        s1 == [s EXCEPT !.ps[motor_name] = [enabled |-> en, target |-> tgt]]
    IN update_pid_ui(s1, motor_name)

toggle_pid(s, motor_name, set_to_zero) ==
    LET en == ~ s.ps[motor_name].enabled
        tgt == IF en /\ set_to_zero THEN 0 ELSE s.ps[motor_name].target
        s1 == [s EXCEPT !.ps[motor_name] = [enabled |-> en, target |-> tgt],
                        !.pc[motor_name] =
                            IF en THEN set_setpoint(@, tgt) ELSE @]
    IN update_pid_ui(s1, motor_name)

\* variant of toggle_save_pos_pid that holds at 0 instead of the position
toggle_save_pos_pid_zero(s, motor_name, enc) ==
    LET s1 == IF s.ps[motor_name].enabled
              THEN [s EXCEPT !.ps[motor_name].enabled = FALSE]
              ELSE [s EXCEPT !.ps[motor_name] =
                                 [enabled |-> TRUE, target |-> 0],
                             !.pc[motor_name] = set_setpoint(@, 0)]
    IN update_pid_ui(s1, motor_name)

toggle_save_pos_pid(s, motor_name, enc) ==
    LET s1 == IF s.ps[motor_name].enabled
              THEN [s EXCEPT !.ps[motor_name].enabled = FALSE]
              ELSE [s EXCEPT !.ps[motor_name] =
                                 [enabled |-> TRUE, target |-> enc[motor_name]],
                             !.pc[motor_name] =
                                 set_setpoint(@, enc[motor_name])]
    IN update_pid_ui(s1, motor_name)

\* variant of toggle_all_one that calls set_setpoint(0) on every axis
toggle_all_one_reprime(s, motor) ==
    LET should_be_enabled == s.az
        s0 == [s EXCEPT !.pc[motor] = set_setpoint(@, 0)] IN
    IF s0.ps[motor].enabled # should_be_enabled
    THEN LET s1 == IF should_be_enabled
                   THEN [s0 EXCEPT !.ps[motor] =
                                       [enabled |-> TRUE, target |-> 0]]
                   ELSE [s0 EXCEPT !.ps[motor].enabled = FALSE]
         IN update_pid_ui(s1, motor)
    ELSE s0

\* body of the for loop of toggle_all_pid_zero_mode for one motor
toggle_all_one(s, motor) ==
    LET should_be_enabled == s.az IN
    IF s.ps[motor].enabled # should_be_enabled
    THEN LET s1 == IF should_be_enabled
                   THEN [s EXCEPT !.ps[motor] =
                                      [enabled |-> TRUE, target |-> 0],
                                  !.pc[motor] = set_setpoint(@, 0)]
                   ELSE [s EXCEPT !.ps[motor].enabled = FALSE]
         IN update_pid_ui(s1, motor)
    ELSE s

RECURSIVE toggle_all_loop(_, _)
toggle_all_loop(s, i) ==
    IF i > Len(MotorOrder) THEN s
    ELSE toggle_all_loop(toggle_all_one(s, MotorOrder[i]), i + 1)

toggle_all_pid_zero_mode(s) ==
    toggle_all_loop([s EXCEPT !.az = ~ s.az], 1)

---------------------------------------------------------------------------
(* controller_listener: event handling *)

FaceButtons == {"A", "B", "X", "Y"}
StickButtons == {"L_STICK", "R_STICK"}
Buttons == FaceButtons \cup StickButtons \cup {"BACK"}
HatValues == {<<1, 0>>, <<-1, 0>>, <<0, 1>>, <<0, -1>>}

\* name of a hat direction in last_press_times
HatControl(v) ==
    CASE v = <<1, 0>> -> "dpad_right" [] v = <<-1, 0>> -> "dpad_left"
      [] v = <<0, 1>> -> "dpad_up" [] v = <<0, -1>> -> "dpad_down"
\* keys of last_press_times
Controls == Buttons \cup {HatControl(v) : v \in HatValues} \cup {"LB", "RB"}

NoEvent == [type |-> "NONE"]
ButtonDown(b) == [type |-> "JOYBUTTONDOWN", button |-> b]
HatMotion(v) == [type |-> "JOYHATMOTION", value |-> v]
Events == {ButtonDown(b) : b \in Buttons} \cup {HatMotion(v) : v \in HatValues}

\* axis toggled by a face or stick button
ButtonMotor(b) ==
    CASE b = "Y" -> "M2" [] b = "B" -> "S3" [] b = "X" -> "M3"
      [] b = "A" -> "M1" [] b = "R_STICK" -> "M2" [] b = "L_STICK" -> "M1"

\* axis toggled by a hat direction
HatMotor(v) ==
    CASE v = <<1, 0>> -> "S2" [] v = <<-1, 0>> -> "M4"
      [] v = <<0, 1>> -> "S3" [] v = <<0, -1>> -> "M3"

ButtonDelay(b) ==
    IF b = "BACK" THEN DPAD_DEBOUNCE_DELAY ELSE BUTTON_DEBOUNCE_DELAY

\* variant of DebounceOk that also accepts an event exactly delay later
DebounceOk_inclusive(current_time, last, delay) == current_time - last >= delay

\* the debounce test of the JOYBUTTONDOWN chain
DebounceOk(current_time, last, delay) == current_time - last > delay

\* body of "for event in pygame.event.get()" for one event
HandleEvent(s, event, current_time, enc) ==
    IF event.type = "JOYBUTTONDOWN"
    THEN LET b == event.button IN
         IF DebounceOk(current_time, s.lpt[b], ButtonDelay(b))
         THEN LET s1 == [s EXCEPT !.lpt[b] = current_time,
                                  !.act[b] = current_time] IN
              IF b \in FaceButtons
              THEN toggle_save_pos_pid(s1, ButtonMotor(b), enc)
              ELSE IF b \in StickButtons
              THEN toggle_pid(s1, ButtonMotor(b), TRUE)
              ELSE toggle_all_pid_zero_mode(s1)
         ELSE s
    ELSE IF event.type = "JOYHATMOTION"
    THEN toggle_pid([s EXCEPT !.act[HatControl(event.value)] = current_time],
                    HatMotor(event.value), TRUE)
    ELSE s

---------------------------------------------------------------------------
(* controller_listener: hold-mode dispatch (for motor, state in pid_states) *)

\* int(min(abs(pid_output), 255))
HoldSpeed(out) == Min(Abs(out[1]) \div out[2], 255)

\* variant of HoldDirection with the same mapping for every axis
HoldDirection_uniform(motor, out) == IF out[1] > 0 THEN "b" ELSE "f"

\* direction of a hold command outside the deadband
HoldDirection(motor, out) ==
    IF motor = "S2" \/ motor = "S3"
    THEN (IF out[1] > 0 THEN "f" ELSE "b")
    ELSE (IF out[1] > 0 THEN "b" ELSE "f")

\* variant of HoldCommand whose deadband ends just below the threshold
HoldCommand_inclusive(motor, target, position, out) ==
    IF Abs(target - position) >= PID_TARGET_THRESHOLD
    THEN Cmd(motor, HoldDirection(motor, out), HoldSpeed(out))
    ELSE Cmd(motor, "s", 0)

\* the command resolved for an enabled axis
HoldCommand(motor, target, position, out) ==
    IF Abs(target - position) > PID_TARGET_THRESHOLD
    THEN Cmd(motor, HoldDirection(motor, out), HoldSpeed(out))
    ELSE Cmd(motor, "s", 0)

\* variant of SendIfChanged without the comparison
SendAlways(s, motor, cmd) == [send_command(s, cmd) EXCEPT !.lc[motor] = cmd]

\* "if cmd != last_commands[motor]: send_command(cmd); last_commands[motor] = cmd"
SendIfChanged(s, motor, cmd) ==
    IF cmd # s.lc[motor]
    THEN [send_command(s, cmd) EXCEPT !.lc[motor] = cmd]
    ELSE s

hold_one(s, motor, enc, t) ==
    IF s.ps[motor].enabled
    THEN LET r == update(motor, s.pc[motor], enc[motor], t)
             cmd == HoldCommand(motor, s.ps[motor].target, enc[motor], r.out)
         IN SendIfChanged([s EXCEPT !.pc[motor] = r.pid,
                                    !.out[motor] = r.out], motor, cmd)
    ELSE s

RECURSIVE hold_loop(_, _, _, _)
hold_loop(s, i, enc, t) ==
    IF i > Len(MotorOrder) THEN s
    ELSE hold_loop(hold_one(s, MotorOrder[i], enc, t), i + 1, enc, t)

---------------------------------------------------------------------------
(* controller_listener: manual dispatch *)

\* variant of StickSpeed that rounds to the nearest integer
StickSpeed_round(v) == (Abs(v) * 255 + 500) \div 1000

\* int(abs(v) * 255) for a stick value v in thousandths
StickSpeed(v) == (Abs(v) * 255) \div 1000

\* the command of a single-motor stick axis (M1 on ly, M2 on ry)
ManualCommand(motor, v) ==
    Cmd(motor,
        IF v > JOYSTICK_DEADZONE THEN "f"
        ELSE IF v < -JOYSTICK_DEADZONE THEN "b" ELSE "s",
        StickSpeed(v))

manual_single(s, motor, v) ==
    IF ~ s.ps[motor].enabled
    THEN SendIfChanged(s, motor, ManualCommand(motor, v))
    ELSE s

\* variant of manual_pair that does not stop the other motor of the pair
manual_pair_no_stop(s, neg, pos, v) ==
    IF ~ s.ps[neg].enabled /\ ~ s.ps[pos].enabled
    THEN IF v > JOYSTICK_DEADZONE \/ v < -JOYSTICK_DEADZONE
         THEN LET motor_text == IF v > JOYSTICK_DEADZONE THEN pos ELSE neg
                  cmd == Cmd(motor_text, "f", StickSpeed(v))
              IN IF cmd # s.lc[motor_text]
                 THEN [send_command(s, cmd) EXCEPT !.lc[motor_text] = cmd]
                 ELSE s
         ELSE IF s.lc[neg] # StopCmd(neg) \/ s.lc[pos] # StopCmd(pos)
              THEN [send_command(send_command(s, StopCmd(neg)), StopCmd(pos))
                       EXCEPT !.lc[neg] = StopCmd(neg),
                              !.lc[pos] = StopCmd(pos)]
              ELSE s
    ELSE s

\* variant of manual_pair that stops the other motor of the pair after it
\* has driven the new one
manual_pair_stop_after(s, neg, pos, v) ==
    IF ~ s.ps[neg].enabled /\ ~ s.ps[pos].enabled
    THEN IF v > JOYSTICK_DEADZONE \/ v < -JOYSTICK_DEADZONE
         THEN LET motor_text == IF v > JOYSTICK_DEADZONE THEN pos ELSE neg
                  other == IF motor_text = pos THEN neg ELSE pos
                  cmd == Cmd(motor_text, "f", StickSpeed(v))
              IN IF cmd # s.lc[motor_text]
                 THEN [send_command(send_command(s, cmd), StopCmd(other))
                          EXCEPT !.lc[motor_text] = cmd,
                                 !.lc[other] = StopCmd(other)]
                 ELSE s
         ELSE IF s.lc[neg] # StopCmd(neg) \/ s.lc[pos] # StopCmd(pos)
              THEN [send_command(send_command(s, StopCmd(neg)), StopCmd(pos))
                       EXCEPT !.lc[neg] = StopCmd(neg),
                              !.lc[pos] = StopCmd(pos)]
              ELSE s
    ELSE s

\* a stick axis shared by two motors: pos is driven by v > 0, neg by v < 0
manual_pair(s, neg, pos, v) ==
    IF ~ s.ps[neg].enabled /\ ~ s.ps[pos].enabled
    THEN IF v > JOYSTICK_DEADZONE \/ v < -JOYSTICK_DEADZONE
         THEN LET motor_text == IF v > JOYSTICK_DEADZONE THEN pos ELSE neg
                  other == IF motor_text = pos THEN neg ELSE pos
                  cmd == Cmd(motor_text, "f", StickSpeed(v))
              IN IF cmd # s.lc[motor_text]
                 THEN [send_command(send_command(s, StopCmd(other)), cmd)
                          EXCEPT !.lc[motor_text] = cmd,
                                 !.lc[other] = StopCmd(other)]
                 ELSE s
         ELSE IF s.lc[neg] # StopCmd(neg) \/ s.lc[pos] # StopCmd(pos)
              THEN [send_command(send_command(s, StopCmd(neg)), StopCmd(pos))
                       EXCEPT !.lc[neg] = StopCmd(neg),
                              !.lc[pos] = StopCmd(pos)]
              ELSE s
    ELSE s

\* the linear actuator S1 on the bumpers
manual_s1(s, lb, rb) ==
    SendIfChanged(s, "S1",
        IF lb THEN Cmd("S1", "f", 255)
        ELSE IF rb THEN Cmd("S1", "b", 255) ELSE Cmd("S1", "s", 0))

---------------------------------------------------------------------------
(* One iteration of the while loop of controller_listener *)

\* the state of the loop iteration after its event, its hold-mode dispatch
\* and its manual dispatch
Iteration(event, j, current_time) ==
    LET s0 == [ps |-> pid_states, pc |-> pid_controllers,
               lpt |-> last_press_times, az |-> all_motors_zero_active,
               lc |-> last_commands, w |-> <<>>, out |-> pid_output,
               act |-> acted, snap |-> afterEvents]
        e1 == HandleEvent(s0, event, current_time, current_encoders)
        s1 == [e1 EXCEPT !.snap = [ps |-> e1.ps, pc |-> e1.pc]]
        s2 == hold_loop(s1, 1, current_encoders, current_time)
        s3 == manual_single(s2, "M1", j.ly)
        s4 == manual_pair(s3, "M4", "S2", j.lx)
        s5 == manual_single(s4, "M2", j.ry)
        s6 == manual_pair(s5, "M3", "S3", j.rx)
    IN manual_s1(s6, j.lb, j.rb)

\* the last command of each channel after the commands of w have been written
RECURSIVE Written(_, _)
Written(wr, w) ==
    IF w = <<>> THEN wr
    ELSE Written([m \in Motors |->
                     IF MOTOR_MAP[m] = Head(w)[1] THEN Head(w) ELSE wr[m]],
                 Tail(w))

Stick(lx, ly, rx, ry, lb, rb) ==
    [lx |-> lx, ly |-> ly, rx |-> rx, ry |-> ry, lb |-> lb, rb |-> rb]

\* stick and bumper positions the operator chooses among
JoySamples ==
    { Stick(0, 0, 0, 0, FALSE, FALSE),
      Stick(100, 100, 100, 100, FALSE, FALSE),
      Stick(500, 500, 500, 500, TRUE, FALSE),
      Stick(-500, -500, -500, -500, FALSE, TRUE) }

\* One loop iteration dt after the previous one.  The operator has either
\* produced one event or moved the sticks since the previous iteration.
controller_listener(dt, event, j) ==
    /\ steps < MaxSteps
    /\ event = NoEvent \/ j = joy
    /\ \E s \in {Iteration(event, j, now + dt)} :
       /\ now' = now + dt
       /\ steps' = steps + 1
       /\ joy' = j
       /\ pid_states' = s.ps
       /\ pid_controllers' = s.pc
       /\ last_press_times' = s.lpt
       /\ all_motors_zero_active' = s.az
       /\ last_commands' = s.lc
       /\ writes' = s.w
       /\ wire' = Written(wire, s.w)
       /\ prevWire' = wire
       /\ lastInput' = event
       /\ pid_output' = s.out
       /\ acted' = s.act
       /\ afterEvents' = s.snap
    /\ UNCHANGED <<current_encoders, lastLine, pidVars, lifeVars>>

---------------------------------------------------------------------------
(* process_gui_queue, message "update_encoders": the telemetry decoder.    *)
(* A line is the sequence of its parts (data.split('|')); a part is the    *)
(* sequence of its fields (part.split(':')).  A field is the text of a     *)
(* key, or a value: <<"int", n>> for text that int() accepts and           *)
(* <<"str", t>> for text that it rejects.                                  *)

Num(n) == <<"int", n>>
Bad(t) == <<"str", t>>

encoder_map(key) ==
    CASE key = "E1" -> "M1" [] key = "E2" -> "M2" [] key = "E3" -> "M3"
      [] key = "E4" -> "M4" [] key = "E5" -> "S2" [] key = "E6" -> "S3"
      [] OTHER -> "none"

\* the keys of the model on which int(key[1:]) does not raise
NumericKeys == {"E0", "E1", "E2", "E3", "E4", "E5", "E6", "E7", "X1"}

\* int(key[1:]) for a key of NumericKeys
KeySuffix(key) ==
    CASE key = "E0" -> 0 [] key = "E1" -> 1 [] key = "E2" -> 2
      [] key = "E3" -> 3 [] key = "E4" -> 4 [] key = "E5" -> 5
      [] key = "E6" -> 6 [] key = "E7" -> 7 [] key = "X1" -> 1

\* variant of decode_part in which a value that is not a number resets the
\* position of its axis
decode_part_zero(enc, part) ==
    IF Len(part) # 2 THEN enc
    ELSE LET key == part[1]
             val == part[2]
         IN IF encoder_map(key) = "none" THEN enc
            ELSE [enc EXCEPT ![encoder_map(key)] =
                                 IF val[1] = "int" THEN val[2] ELSE 0]

\* body of "for part in data.split('|')" for one part
decode_part(enc, part) ==
    IF Len(part) # 2 THEN enc                       \* unpacking: ValueError
    ELSE LET key == part[1]
             val == part[2]
         IN IF key \notin NumericKeys THEN enc      \* int(key[1:]): ValueError
            ELSE IF val[1] # "int" THEN enc         \* int(val_str): ValueError
            ELSE IF KeySuffix(key) - 1 > 5 \/ KeySuffix(key) - 1 < -6
                 THEN enc                           \* IndexError
            ELSE IF encoder_map(key) = "none" THEN enc
            ELSE [enc EXCEPT ![encoder_map(key)] = val[2]]

RECURSIVE decode_line(_, _)
decode_line(enc, data) ==
    IF data = <<>> THEN enc
    ELSE decode_line(decode_part(enc, Head(data)), Tail(data))

EKey == <<"E1", "E2", "E3", "E4", "E5", "E6">>
Frame(v1, v2, v3, v4, v5, v6) ==
    LET v == <<v1, v2, v3, v4, v5, v6>> IN
    [i \in 1..6 |-> <<EKey[i], Num(v[i])>>]

\* telemetry lines the arm sends (all start with "E1:")
Lines ==
    { Frame(100, 100, 100, 100, 100, 100),
      Frame(-100, -100, -100, -100, -100, -100),
      Frame(5, 3, 30, 40, 50, 60),
      Frame(10, 20, 30, 40, 50, 60),
      [Frame(10, 20, 30, 40, 50, 60) EXCEPT ![2] = <<"Ex", Bad("bad")>>] }

\* variant of process_gui_queue that also moves the target of every axis
\* in hold mode to its new position
process_gui_queue_retarget(data) ==
    /\ steps < MaxSteps
    /\ steps' = steps + 1
    /\ current_encoders' = decode_line(current_encoders, data)
    /\ lastLine' = data
    /\ pid_states' = [m \in HoldMotors |->
                         IF pid_states[m].enabled
                         THEN [pid_states[m] EXCEPT
                                  !.target = decode_line(current_encoders,
                                                         data)[m]]
                         ELSE pid_states[m]]
    /\ UNCHANGED <<now, joy, pid_controllers, last_press_times,
                   all_motors_zero_active, last_commands, wire, writes,
                   prevWire, lastInput, pid_output, acted, afterEvents, pidVars,
                   lifeVars>>

\* the GUI thread handles one "update_encoders" message
process_gui_queue(data) ==
    /\ steps < MaxSteps
    /\ steps' = steps + 1
    /\ current_encoders' = decode_line(current_encoders, data)
    /\ lastLine' = data
    /\ UNCHANGED <<now, joy, pid_states, pid_controllers, last_press_times,
                   all_motors_zero_active, last_commands, wire, writes,
                   prevWire, lastInput, pid_output, acted, afterEvents, pidVars,
                   lifeVars>>

---------------------------------------------------------------------------
(* The control specification: a connected session *)

PidInit ==
    /\ pidT = PIDController
    /\ pidAxis = "M1"
    /\ pidClock = T0
    /\ pidRet = <<0, 1>>
    /\ pidOp = [op |-> "init", arg |-> 0]
    /\ pidUpdates = 0
    /\ pidCalls = 0

\* the threads of the model: thread i is started by the i-th connect
Threads == 1..MaxSessions

LifeInit ==
    /\ serial_port = "none"
    /\ stop_threads = FALSE
    /\ ctl = [i \in Threads |-> "none"]
    /\ rdr = [i \in Threads |-> "none"]
    /\ main = <<"idle">>
    /\ pending = [i \in Threads |-> 0]
    /\ closedWrite = FALSE
    /\ writeFailed = 0
    /\ sessions = 0

CtlInit ==
    /\ now = T0
    /\ steps = 0
    /\ joy = Stick(0, 0, 0, 0, FALSE, FALSE)
    /\ pid_states = [m \in HoldMotors |-> [enabled |-> FALSE, target |-> 0]]
    /\ current_encoders = [m \in HoldMotors |-> 0]
    /\ pid_controllers = [m \in HoldMotors |-> PIDController]
    /\ last_press_times = [c \in Controls |-> 0]
    /\ all_motors_zero_active = FALSE
    /\ last_commands = [m \in Motors |-> NoCmd]
    /\ wire = [m \in Motors |-> NoCmd]
    /\ writes = <<>>
    /\ prevWire = wire
    /\ lastInput = NoEvent
    /\ lastLine = <<>>
    /\ pid_output = [m \in HoldMotors |-> <<0, 1>>]
    /\ acted = [c \in Controls |-> 0]
    /\ afterEvents = [ps |-> pid_states, pc |-> pid_controllers]

Init == CtlInit /\ PidInit /\ LifeInit

Next ==
    \/ \E dt \in Dts, j \in JoySamples : controller_listener(dt, NoEvent, j)
    \/ \E dt \in EventDts, event \in Events :
          controller_listener(dt, event, joy)
    \/ \E data \in Lines : process_gui_queue(data)

Spec == Init /\ [][Next]_vars

---------------------------------------------------------------------------
(* Properties of the control loop *)

\* the two pairs of motors that share one stick axis
Pairs == {<<"M4", "S2">>, <<"M3", "S3">>}

\* a command with a non-stop direction
Driven(c) == c # NoCmd /\ c[2] # "s"

\* the step is a loop iteration of controller_listener
IsIteration == now' # now

\* at least one loop iteration has run
HasRun == last_commands["S1"] # NoCmd

\* the commands of w written on the channel of motor m, in order
ChannelWrites(w, m) == SelectSeq(w, LAMBDA c : c[1] = MOTOR_MAP[m])

\* C1 as stated: for each exclusive pair, the last commands written for its
\* two channels never both have a non-stop direction.
C1_NeverBothDriven ==
    \A p \in Pairs : ~ (Driven(wire[p[1]]) /\ Driven(wire[p[2]]))

\* C1 amended: while neither motor of an exclusive pair is in hold mode, the
\* last commands written for its two channels never both have a non-stop
\* direction.
C1_ExclusiveInManual ==
    \A p \in Pairs :
        (~ pid_states[p[1]].enabled /\ ~ pid_states[p[2]].enabled)
            => ~ (Driven(wire[p[1]]) /\ Driven(wire[p[2]]))

\* the stick has switched an exclusive pair from one motor to the other: the
\* loop iteration stopped one motor of the pair and drove the other one
C1_Witness ==
    \E p \in Pairs : \E a \in {p[1], p[2]}, b \in {p[1], p[2]} :
        /\ a # b
        /\ ~ pid_states[a].enabled /\ ~ pid_states[b].enabled
        /\ writes # <<>>
        /\ ChannelWrites(writes, a) = <<StopCmd(a)>>
        /\ Len(ChannelWrites(writes, b)) = 1
        /\ Driven(wire[b])
        /\ now > T0 + 1

\* no two adjacent commands of q are identical
NoRepeat(q) == \A i \in 1..(Len(q) - 1) : q[i] # q[i + 1]

\* no two adjacent commands of q are identical, unless they are the stop of m
NoRepeatButStop(q, m) ==
    \A i \in 1..(Len(q) - 1) : q[i] = q[i + 1] => q[i] = StopCmd(m)

\* what a channel has received once the loop iteration is over: the last
\* command written before the iteration, then the commands it writes
Received(m) == <<wire[m]>> \o ChannelWrites(writes', m)

\* the iteration resolves what the previous one resolved: every axis is in
\* manual mode, no event arrives and the sticks have not moved
SameResolved ==
    /\ HasRun
    /\ \A m \in HoldMotors : ~ pid_states[m].enabled
    /\ lastInput' = NoEvent
    /\ joy' = joy

\* C2 as stated: no two consecutive writes on one channel carry the
\* identical command.
C2_NoRepeatedWrite ==
    [][IsIteration => \A m \in Motors : NoRepeat(Received(m))]_vars

\* C2 amended: within one run of the control loop no two consecutive writes
\* on one channel carry the identical command, except the stop command
\* (channel, s, 0); and a loop iteration that resolves the same commands as
\* the previous one writes nothing.
C2_NoRepeatedDrive ==
    [][IsIteration =>
          /\ \A m \in Motors : NoRepeatButStop(Received(m), m)
          /\ SameResolved => writes' = <<>>]_vars

\* a loop iteration has resolved the command that M1 is being driven with
\* once more, and has written nothing
C2_Witness ==
    /\ writes = <<>>
    /\ lastInput = NoEvent
    /\ Driven(wire["M1"])
    /\ last_commands["M1"] = wire["M1"]
    /\ ~ pid_states["M1"].enabled

\* the most recent loop iteration invoked toggle_all_pid_zero_mode
GlobalToggled == lastInput = ButtonDown("BACK") /\ acted["BACK"] = now

\* C3 as stated: when the global zero mode has just been activated every
\* holdable axis is enabled with target 0; when it has just been
\* deactivated every axis is disabled.
C3_GlobalZeroForcesAll ==
    GlobalToggled =>
        IF all_motors_zero_active
        THEN \A m \in HoldMotors :
                 pid_states[m].enabled /\ pid_states[m].target = 0
        ELSE \A m \in HoldMotors : ~ pid_states[m].enabled

\* an enabled axis whose most recent hold command is outside the deadband
Regulating(m) == pid_states[m].enabled /\ Driven(last_commands[m])

\* C4 as stated: exactly two axes map positive output to backward and
\* negative output to forward, every other holdable axis maps positive
\* output to forward (and negative output to backward).
C4_TwoAxesInverted ==
    \E R \in SUBSET HoldMotors :
        /\ Cardinality(R) = 2
        /\ \A m \in HoldMotors :
              Regulating(m) =>
                  /\ pid_output[m][1] > 0 =>
                         last_commands[m][2] = (IF m \in R THEN "b" ELSE "f")
                  /\ pid_output[m][1] < 0 =>
                         last_commands[m][2] = (IF m \in R THEN "f" ELSE "b")

\* C4 amended: exactly two axes, S2 and S3, map positive output to forward
\* and any other output to backward; the other four holdable axes, M1 to
\* M4, map positive output to backward and any other output to forward.
C4_DirectionBySign ==
    \A m \in HoldMotors :
        Regulating(m) =>
            last_commands[m][2] =
                IF m \in {"S2", "S3"}
                THEN (IF pid_output[m][1] > 0 THEN "f" ELSE "b")
                ELSE (IF pid_output[m][1] > 0 THEN "b" ELSE "f")

\* one of M1..M4 is regulated backward by a positive output while one of
\* S2, S3 is regulated forward by a positive output
C4_Witness ==
    /\ \E m \in {"M1", "M2", "M3", "M4"} :
          /\ Regulating(m)
          /\ pid_output[m][1] > 0
          /\ last_commands[m][2] = "b"
          /\ last_commands[m][3] > 0
    /\ \E m \in {"S2", "S3"} :
          /\ Regulating(m)
          /\ pid_output[m][1] > 0
          /\ last_commands[m][2] = "f"
          /\ last_commands[m][3] > 0

\* the loop iteration has flipped the hold mode of motor m
Flipped(m) == pid_states'[m].enabled # pid_states[m].enabled

\* C5 as stated: a d-pad direction event toggles the hold mode of its axis
\* only if more than 500 ms have passed since the last event of that
\* direction that toggled it.
C5_DpadDebounced ==
    [][\A v \in HatValues :
          (IsIteration /\ lastInput' = HatMotion(v) /\ Flipped(HatMotor(v)))
              => now' - acted[HatControl(v)] > DPAD_DEBOUNCE_DELAY]_vars

\* the debounce window of a button: 300 ms, and 500 ms for global reset
Window(b) ==
    IF b = "BACK" THEN DPAD_DEBOUNCE_DELAY ELSE BUTTON_DEBOUNCE_DELAY

\* the loop iteration has carried out the action of button b
Fired(b) ==
    IF b = "BACK" THEN all_motors_zero_active' # all_motors_zero_active
    ELSE Flipped(ButtonMotor(b))

\* C6: a button-down event fires its action iff now - last_press_times of
\* that button is strictly greater than its window; an accepted event sets
\* the timestamp to now, a rejected one leaves the timestamps and the axis
\* states unchanged.
C6_ButtonDebounce ==
    [][\A b \in Buttons :
          (IsIteration /\ lastInput' = ButtonDown(b)) =>
              /\ Fired(b) <=> (now' - last_press_times[b] > Window(b))
              /\ Fired(b) => last_press_times'[b] = now'
              /\ ~ Fired(b) =>
                     /\ last_press_times' = last_press_times
                     /\ pid_states' = pid_states
                     /\ all_motors_zero_active' = all_motors_zero_active]_vars

\* a button that was accepted before has been pressed again exactly one
\* window later, and the event was rejected
C6_Witness ==
    \E b \in Buttons :
        /\ lastInput = ButtonDown(b)
        /\ last_press_times[b] > 0
        /\ now - last_press_times[b] = Window(b)

\* the stick axis read for the single-motor axes M1 and M2
StickOf(m) == IF m = "M1" THEN joy.ly ELSE joy.ry

\* C7 as stated: for M1 and M2 not in hold mode, whenever the stick
\* magnitude is below the deadzone the resolved command is (channel, s, 0).
C7_DeadzoneStop ==
    \A m \in {"M1", "M2"} :
        (HasRun /\ ~ pid_states[m].enabled
                /\ Abs(StickOf(m)) < JOYSTICK_DEADZONE)
            => last_commands[m] = StopCmd(m)

\* the distance of axis m from its target, as the loop iteration sees it
Distance(m) == Abs(pid_states'[m].target - current_encoders[m])

\* sp is the fraction out cut to 255 (the speed exactly as computed)
SpeedIsMin(sp, out) == sp * out[2] = Min(Abs(out[1]), 255 * out[2])

\* sp is the integer part of the fraction out cut to 255
SpeedIsFloor(sp, out) ==
    /\ sp \in 0..255
    /\ sp * out[2] <= Abs(out[1])
    /\ sp < 255 => Abs(out[1]) < (sp + 1) * out[2]

\* C12 as stated: each tick, for every enabled axis, within the hold
\* deadband (distance <= 5) the command is (channel, s, 0), and otherwise
\* its speed is min(|PID output|, 255).
C12_HoldSpeedIsMin ==
    [][IsIteration =>
          \A m \in HoldMotors :
              pid_states'[m].enabled =>
                  IF Distance(m) <= 5
                  THEN last_commands'[m] = StopCmd(m)
                  ELSE SpeedIsMin(last_commands'[m][3], pid_output'[m])]_vars

\* C12 amended: each tick, for every enabled axis, within the hold deadband
\* (distance <= 5) the command is (channel, s, 0), and otherwise its
\* direction is not stop and its speed is the integer part of
\* min(|PID output|, 255); so the speed lies in 0..255 and a stop command
\* carries speed 0.
C12_HoldSpeedIsFloor ==
    [][IsIteration =>
          \A m \in HoldMotors :
              pid_states'[m].enabled =>
                  /\ IF Distance(m) <= 5
                     THEN last_commands'[m] = StopCmd(m)
                     ELSE /\ last_commands'[m][2] \in {"f", "b"}
                          /\ SpeedIsFloor(last_commands'[m][3], pid_output'[m])
                  /\ last_commands'[m][3] \in 0..255
                  /\ last_commands'[m][2] = "s" => last_commands'[m][3] = 0]_vars

\* one enabled axis rests exactly 5 counts from its target with a stop
\* command, while another one is regulated with an output that is not a
\* whole number
C12_Witness ==
    /\ \E m \in HoldMotors :
          /\ pid_states[m].enabled
          /\ Abs(pid_states[m].target - current_encoders[m]) = 5
          /\ last_commands[m] = StopCmd(m)
    /\ \E m \in HoldMotors :
          /\ Regulating(m)
          /\ pid_output[m][1] % pid_output[m][2] # 0
          /\ last_commands[m][3] > 0
          /\ last_commands[m][3] < 255

\* the loop iteration has accepted the press of button b
Accepted(b) == IsIteration /\ lastInput' = ButtonDown(b) /\ acted'[b] = now'

\* a PIDController just primed with setpoint sp
Primed(sp) == [setpoint |-> sp, integral_error |-> 0, last_error |-> 0,
               last_time |-> None]

\* C14: an accepted face button on a disabled axis enables it with target
\* equal to its current position and primes its PID with that setpoint
\* (integral 0, last error 0, last time unset); on an enabled axis it
\* disables it and leaves target, current position and PID state unchanged.
C14_HoldAtCurrentPosition ==
    [][\A b \in FaceButtons :
          Accepted(b) =>
              LET m == ButtonMotor(b) IN
              IF ~ pid_states[m].enabled
              THEN /\ afterEvents'.ps[m] =
                         [enabled |-> TRUE, target |-> current_encoders[m]]
                   /\ afterEvents'.pc[m] = Primed(current_encoders[m])
                   /\ pid_states'[m] = afterEvents'.ps[m]
              ELSE /\ afterEvents'.ps[m] =
                         [enabled |-> FALSE, target |-> pid_states[m].target]
                   /\ afterEvents'.pc[m] = pid_controllers[m]
                   /\ pid_states'[m] = afterEvents'.ps[m]
                   /\ pid_controllers'[m] = pid_controllers[m]
                   /\ current_encoders' = current_encoders]_vars

\* a face button has put an axis that stands away from 0 in hold mode at
\* its position, with its PID primed; the hold loop of the same iteration
\* has then made the first update
C14_Witness ==
    \E b \in FaceButtons :
        /\ lastInput = ButtonDown(b)
        /\ acted[b] = now
        /\ afterEvents.ps[ButtonMotor(b)].enabled
        /\ afterEvents.ps[ButtonMotor(b)].target # 0
        /\ afterEvents.ps[ButtonMotor(b)].target
               = current_encoders[ButtonMotor(b)]
        /\ afterEvents.pc[ButtonMotor(b)]
               = Primed(current_encoders[ButtonMotor(b)])
        /\ pid_controllers[ButtonMotor(b)].last_time = now

\* the places of w that hold a non-stop command for motor m
DrivesIn(w, m) == {i \in 1..Len(w) : w[i][1] = MOTOR_MAP[m] /\ w[i][2] # "s"}

\* the places of w that hold the stop command of motor m
StopsIn(w, m) == {i \in 1..Len(w) : w[i] = StopCmd(m)}

\* C15: in manual mode, when motor a of an exclusive pair is being driven
\* and a loop iteration writes a non-stop command for the other motor b,
\* the same iteration writes the stop command of a before that command, and
\* a is left stopped.
C15_StopBeforeSwitch ==
    [][IsIteration =>
          \A p \in Pairs : \A a \in {p[1], p[2]}, b \in {p[1], p[2]} :
              (/\ a # b
               /\ ~ pid_states'[a].enabled /\ ~ pid_states'[b].enabled
               /\ Driven(wire[a])
               /\ DrivesIn(writes', b) # {})
              => /\ \A i \in DrivesIn(writes', b) :
                        \E j \in StopsIn(writes', a) : j < i
                 /\ wire'[a] = StopCmd(a)]_vars

\* the stick has gone from one side to the other with the pair in manual
\* mode all along: the motor that was driven got its stop command, then the
\* other motor its drive command
C15_Witness ==
    \E p \in Pairs : \E a \in {p[1], p[2]}, b \in {p[1], p[2]} :
        /\ a # b
        /\ lastInput = NoEvent
        /\ ~ pid_states[a].enabled /\ ~ pid_states[b].enabled
        /\ Driven(prevWire[a])
        /\ prevWire[b] = StopCmd(b)
        /\ Len(writes) >= 2
        /\ \E i \in 1..(Len(writes) - 1) :
              /\ writes[i] = StopCmd(a)
              /\ writes[i + 1][1] = MOTOR_MAP[b]
              /\ writes[i + 1][2] = "f"
        /\ wire[a] = StopCmd(a)
        /\ Driven(wire[b])

\* the stick axis shared by the motors of pair p
PairStick(p) == IF p = <<"M4", "S2">> THEN joy.lx ELSE joy.rx

\* the stick value v (in thousandths) is beyond the deadzone
Deflected(v) == Abs(v) > JOYSTICK_DEADZONE

\* sp is |v| * 255 rounded to the nearest integer (127.5 gives 128)
IsRounded(sp, v) ==
    /\ 2 * sp * 1000 - 1000 <= 2 * Abs(v) * 255
    /\ 2 * Abs(v) * 255 < 2 * sp * 1000 + 1000

\* sp is the integer part of |v| * 255
IsTruncated(sp, v) ==
    /\ sp * 1000 <= Abs(v) * 255
    /\ Abs(v) * 255 < (sp + 1) * 1000

\* C18 as stated: for a stick axis not in hold mode and deflected beyond
\* the deadzone, the manual command has speed round(|value| * 255) and
\* direction forward for a positive value, backward for a negative one.
C18_SpeedRounded ==
    HasRun =>
        /\ \A m \in {"M1", "M2"} :
              (~ pid_states[m].enabled /\ Deflected(StickOf(m))) =>
                  /\ IsRounded(last_commands[m][3], StickOf(m))
                  /\ last_commands[m][2] = IF StickOf(m) > 0 THEN "f" ELSE "b"
        /\ \A p \in Pairs :
              (~ pid_states[p[1]].enabled /\ ~ pid_states[p[2]].enabled
                  /\ Deflected(PairStick(p))) =>
                  \E m \in {p[1], p[2]} :
                      /\ IsRounded(last_commands[m][3], PairStick(p))
                      /\ last_commands[m][2]
                             = IF PairStick(p) > 0 THEN "f" ELSE "b"

\* C18 amended: for a stick axis not in hold mode and deflected beyond the
\* deadzone, the speed is the integer part of |value| * 255 (0.5 gives
\* 127); on the axes of M1 and M2 the direction is forward for a positive
\* value and backward for a negative one; on the axes shared by a pair the
\* sign selects the motor (S2 or S3 for a positive value, M4 or M3 for a
\* negative one) and the direction is always forward.
C18_SpeedTruncated ==
    HasRun =>
        /\ \A m \in {"M1", "M2"} :
              (~ pid_states[m].enabled /\ Deflected(StickOf(m))) =>
                  /\ last_commands[m][1] = MOTOR_MAP[m]
                  /\ IsTruncated(last_commands[m][3], StickOf(m))
                  /\ last_commands[m][2] = IF StickOf(m) > 0 THEN "f" ELSE "b"
        /\ \A p \in Pairs :
              (~ pid_states[p[1]].enabled /\ ~ pid_states[p[2]].enabled
                  /\ Deflected(PairStick(p))) =>
                  LET m == IF PairStick(p) > 0 THEN p[2] ELSE p[1] IN
                  /\ last_commands[m][1] = MOTOR_MAP[m]
                  /\ IsTruncated(last_commands[m][3], PairStick(p))
                  /\ last_commands[m][2] = "f"

\* with both sticks at -0.5 and no axis in hold mode, M1 runs backward and
\* M4 forward, both at speed 127
C18_Witness ==
    /\ HasRun
    /\ \A m \in HoldMotors : ~ pid_states[m].enabled
    /\ joy.ly = -500 /\ joy.lx = -500
    /\ last_commands["M1"] = Cmd("M1", "b", 127)
    /\ wire["M1"] = Cmd("M1", "b", 127)
    /\ last_commands["M4"] = Cmd("M4", "f", 127)
    /\ wire["M4"] = Cmd("M4", "f", 127)

\* the direction that the stick asks of motor m: M1 and M2 follow the sign
\* of their own axis, a motor of a pair runs forward while the shared axis
\* is deflected to its side
ManualDirection(m) ==
    IF m \in {"M1", "M2"}
    THEN (IF StickOf(m) > JOYSTICK_DEADZONE THEN "f"
          ELSE IF StickOf(m) < -JOYSTICK_DEADZONE THEN "b" ELSE "s")
    ELSE LET p == CHOOSE q \in Pairs : m \in {q[1], q[2]} IN
         IF (m = p[2] /\ PairStick(p) > JOYSTICK_DEADZONE)
            \/ (m = p[1] /\ PairStick(p) < -JOYSTICK_DEADZONE)
         THEN "f" ELSE "s"

\* C19 as stated: after every control tick, each holdable axis that is not
\* in hold mode has had its command resolved from the stick, whatever the
\* mode of the other axes: its last resolved command is on its channel and
\* has the direction that the stick asks for.
C19_ManualWheneverDisabled ==
    HasRun =>
        \A m \in HoldMotors :
            ~ pid_states[m].enabled =>
                /\ last_commands[m] # NoCmd
                /\ last_commands[m][1] = MOTOR_MAP[m]
                /\ last_commands[m][2] = ManualDirection(m)

\* what _toggle_pid(m, set_to_zero=True) is to do in the step
ResetToZero(m) ==
    /\ afterEvents'.ps[m].enabled = ~ pid_states[m].enabled
    /\ pid_states'[m] = afterEvents'.ps[m]
    /\ IF ~ pid_states[m].enabled
       THEN /\ afterEvents'.ps[m].target = 0
            /\ afterEvents'.pc[m] = Primed(0)
       ELSE /\ afterEvents'.ps[m].target = pid_states[m].target
            /\ afterEvents'.pc[m] = pid_controllers[m]
            /\ pid_controllers'[m] = pid_controllers[m]

\* C20: an accepted stick click and every d-pad event flip the enabled
\* field of their axis; when the axis becomes enabled its target is set to
\* 0 and its PID is primed with setpoint 0; when it becomes disabled its
\* target and its PID state are left unchanged.
C20_HoldResetToZero ==
    [][/\ \A b \in StickButtons : Accepted(b) => ResetToZero(ButtonMotor(b))
       /\ \A v \in HatValues :
             (IsIteration /\ lastInput' = HatMotion(v))
                 => ResetToZero(HatMotor(v))]_vars

\* a d-pad event has taken an axis out of hold mode that a face button
\* had put in hold mode away from 0: the axis keeps its target, its PID
\* keeps the setpoint and the time of its last update, and the stop
\* command has been written
C20_Witness ==
    \E v \in HatValues :
        /\ lastInput = HatMotion(v)
        /\ acted[HatControl(v)] = now
        /\ ~ pid_states[HatMotor(v)].enabled
        /\ pid_states[HatMotor(v)].target # 0
        /\ pid_controllers[HatMotor(v)].setpoint
               = pid_states[HatMotor(v)].target
        /\ pid_controllers[HatMotor(v)].last_time # None
        /\ afterEvents.pc[HatMotor(v)] = pid_controllers[HatMotor(v)]
        /\ wire[HatMotor(v)] = StopCmd(HatMotor(v))

\* toggle_all_pid_zero_mode has left the PID of axis m as it was
KeepsPid(m) == afterEvents'.pc[m] = pid_controllers[m]

\* C21: an accepted BACK press primes the PID (set_setpoint(0)) of exactly
\* the axes whose enabled field it changes on activation; an axis that is
\* already in the requested state keeps its PID integral_error, last_error
\* and last_time; on deactivation no PID is primed at all.
C21_PrimesOnlyChangedAxes ==
    [][Accepted("BACK") =>
          \A m \in HoldMotors :
              /\ afterEvents'.ps[m].enabled = all_motors_zero_active'
              /\ IF all_motors_zero_active' /\ ~ pid_states[m].enabled
                 THEN afterEvents'.pc[m] = Primed(0)
                 ELSE KeepsPid(m)]_vars

\* the global mode has been activated while one axis was already in hold
\* mode with its PID running: that PID has kept the time of its last
\* update, and the PID of another axis has been primed
C21_ActivationWitness ==
    /\ lastInput = ButtonDown("BACK")
    /\ acted["BACK"] = now
    /\ all_motors_zero_active
    /\ \E m, k \in HoldMotors :
          /\ afterEvents.pc[m].last_time \notin {None, now}
          /\ afterEvents.pc[k] = Primed(0)
          /\ pid_controllers[k].last_time = now

\* the global mode has been deactivated while the PIDs were running: every
\* axis has left hold mode and has kept the time of its last update
C21_Witness ==
    /\ lastInput = ButtonDown("BACK")
    /\ acted["BACK"] = now
    /\ ~ all_motors_zero_active
    /\ \A m \in HoldMotors :
          /\ ~ pid_states[m].enabled
          /\ pid_controllers[m].last_time \notin {None, now}
          /\ afterEvents.pc[m] = pid_controllers[m]
          /\ wire[m] = StopCmd(m)

\* C24: for every channel, last_commands holds the most recent command
\* written to the serial link for that channel, the stop written when an
\* axis leaves hold mode included.
C24_RecordIsLastWritten ==
    \A m \in Motors : last_commands[m] = wire[m]

---------------------------------------------------------------------------
(* The PID specification: one PIDController, constructed with the gains    *)
(* of any of the six axes, under any sequence of calls                     *)

PidSetSetpoint(v) ==
    /\ pidCalls < MaxPidCalls
    /\ pidCalls' = pidCalls + 1
    /\ pidT' = set_setpoint(pidT, v)
    /\ pidOp' = [op |-> "set_setpoint", arg |-> v]
    /\ pidUpdates' = 0
    /\ UNCHANGED <<pidAxis, pidClock, pidRet, ctlVars, lifeVars>>

\* update(v), d after the previous reading of the clock
PidUpdate(v, d) ==
    /\ pidCalls < MaxPidCalls
    /\ pidCalls' = pidCalls + 1
    /\ pidClock' = pidClock + d
    /\ \E r \in {update(pidAxis, pidT, v, pidClock + d)} :
          /\ pidT' = r.pid
          /\ pidRet' = r.out
    /\ pidOp' = [op |-> "update", arg |-> v]
    /\ pidUpdates' = pidUpdates + 1
    /\ UNCHANGED <<pidAxis, ctlVars, lifeVars>>

PidSpecInit ==
    /\ CtlInit
    /\ LifeInit
    /\ pidT = PIDController
    /\ pidAxis \in HoldMotors
    /\ pidClock = T0
    /\ pidRet = <<0, 1>>
    /\ pidOp = [op |-> "init", arg |-> 0]
    /\ pidUpdates = 0
    /\ pidCalls = 0

PidNext ==
    \/ \E v \in PidVals : PidSetSetpoint(v)
    \/ \E v \in PidVals, d \in PidDts : PidUpdate(v, d)

PIDSpec == PidSpecInit /\ [][PidNext]_vars

\* the step is a call of update
IsUpdate == pidCalls' # pidCalls /\ pidOp'.op = "update"

\* C10: the first update after construction or after set_setpoint returns 0,
\* only records the time in last_time and leaves integral_error and
\* last_error at 0; the next update at a later time starts to accumulate.
C10_FirstUpdateZero ==
    [][IsUpdate =>
          /\ pidUpdates = 0 =>
                 /\ pidRet'[1] = 0
                 /\ pidT' = [pidT EXCEPT !.last_time = pidClock']
                 /\ pidT'.integral_error = 0
                 /\ pidT'.last_error = 0
          /\ (pidUpdates = 1 /\ pidClock' > pidClock) =>
                 /\ pidT'.last_error = pidT.setpoint - pidOp'.arg
                 /\ pidT'.integral_error =
                        (pidT.setpoint - pidOp'.arg) * (pidClock' - pidClock)
                 /\ pidT'.last_time = pidClock']_vars

\* the first update after a set_setpoint that followed earlier updates, made
\* away from the setpoint, has returned 0 and only recorded the time
C10_Witness ==
    /\ pidOp.op = "update"
    /\ pidUpdates = 1
    /\ pidCalls >= 3
    /\ pidT.setpoint # pidOp.arg
    /\ pidT.setpoint # 0
    /\ pidRet[1] = 0
    /\ pidT.last_time = pidClock

---------------------------------------------------------------------------
(* The life-cycle specification: connect, disconnect and on_closing on the *)
(* GUI thread, the controller threads and the serial reader threads, one   *)
(* step per statement that reads or writes serial_port, stop_threads or a  *)
(* thread.  What a loop iteration sends is left open: it makes up to       *)
(* MaxSends calls of send_command.  join(timeout=1) returns when its       *)
(* thread has ended or when the second is over, whichever the scheduler    *)
(* brings about.  A failing serial.Serial() in connect changes nothing     *)
(* here and is left out.                                                   *)

Alive(pc) == pc \notin {"none", "done", "crashed"}

\* the process runs until on_closing has destroyed the window
Running == main # <<"exited">>

\* toggle_connection with the port closed: connect, up to serial.Serial()
ConnectOpen ==
    /\ main = <<"idle">>
    /\ serial_port # "open"
    /\ sessions < MaxSessions
    /\ serial_port' = "open"
    /\ main' = <<"connecting">>
    /\ UNCHANGED <<stop_threads, ctl, rdr, pending, closedWrite, writeFailed,
                   sessions, ctlVars, pidVars>>

\* connect: stop_threads.clear() and the start of the two threads
ConnectStart ==
    /\ main = <<"connecting">>
    /\ stop_threads' = FALSE
    /\ sessions' = sessions + 1
    /\ ctl' = [ctl EXCEPT ![sessions + 1] = "start"]
    /\ rdr' = [rdr EXCEPT ![sessions + 1] = "loop"]
    /\ main' = <<"idle">>
    /\ writeFailed' = 0
    /\ UNCHANGED <<serial_port, pending, closedWrite, ctlVars, pidVars>>

\* toggle_connection with the port open: disconnect (kind "d"), or
\* on_closing (kind "c"): stop_threads.set()
MainSetStop(kind) ==
    /\ main = <<"idle">>
    /\ kind = "d" => serial_port = "open"
    /\ stop_threads' = TRUE
    /\ main' = <<kind, "join_ctl">>
    /\ UNCHANGED <<serial_port, ctl, rdr, pending, closedWrite, writeFailed,
                   sessions, ctlVars, pidVars>>

\* controller_thread.join(timeout=1)
MainJoinCtl ==
    /\ Len(main) = 2 /\ main[2] = "join_ctl"
    /\ main' = <<main[1], "join_rdr">>
    /\ UNCHANGED <<serial_port, stop_threads, ctl, rdr, pending, closedWrite,
                   writeFailed, sessions, ctlVars, pidVars>>

\* serial_reader_thread.join(timeout=1)
MainJoinRdr ==
    /\ Len(main) = 2 /\ main[2] = "join_rdr"
    /\ main' = <<main[1], "close">>
    /\ UNCHANGED <<serial_port, stop_threads, ctl, rdr, pending, closedWrite,
                   writeFailed, sessions, ctlVars, pidVars>>

\* "if self.serial_port and self.serial_port.is_open: self.serial_port.close()"
\* on_closing then quits pygame and destroys the window
MainClose ==
    /\ Len(main) = 2 /\ main[2] = "close"
    /\ serial_port' = IF serial_port = "open" THEN "closed" ELSE serial_port
    /\ main' = IF main[1] = "d" THEN <<"d", "release">> ELSE <<"exited">>
    /\ UNCHANGED <<stop_threads, ctl, rdr, pending, closedWrite, writeFailed,
                   sessions, ctlVars, pidVars>>

\* disconnect: self.serial_port = None
MainRelease ==
    /\ main = <<"d", "release">>
    /\ serial_port' = "none"
    /\ main' = <<"idle">>
    /\ UNCHANGED <<stop_threads, ctl, rdr, pending, closedWrite, writeFailed,
                   sessions, ctlVars, pidVars>>

\* controller_listener up to the while loop: it returns at once when no
\* joystick is found
CtlStart(i, found) ==
    /\ Running
    /\ ctl[i] = "start"
    /\ ctl' = [ctl EXCEPT ![i] = IF found THEN "loop" ELSE "done"]
    /\ UNCHANGED <<serial_port, stop_threads, rdr, main, pending, closedWrite,
                   writeFailed, sessions, ctlVars, pidVars>>

\* where a controller thread goes on when n send_command calls are left
AfterSend(n) == IF n > 0 THEN "send" ELSE "loop"

\* "while not self.stop_threads.is_set()": the thread returns, or starts a
\* loop iteration that will call send_command n times
CtlLoop(i, n) ==
    /\ Running
    /\ ctl[i] = "loop"
    /\ IF stop_threads
       THEN /\ ctl' = [ctl EXCEPT ![i] = "done"]
            /\ UNCHANGED pending
       ELSE /\ ctl' = [ctl EXCEPT ![i] = AfterSend(n)]
            /\ pending' = [pending EXCEPT ![i] = n]
    /\ UNCHANGED <<serial_port, stop_threads, rdr, main, closedWrite,
                   writeFailed, sessions, ctlVars, pidVars>>

\* a loop iteration that finds pygame.QUIT: "self.stop_threads.set(); return"
CtlQuit(i) ==
    /\ Running
    /\ ctl[i] = "loop"
    /\ ~ stop_threads
    /\ stop_threads' = TRUE
    /\ ctl' = [ctl EXCEPT ![i] = "done"]
    /\ UNCHANGED <<serial_port, rdr, main, pending, closedWrite, writeFailed,
                   sessions, ctlVars, pidVars>>

\* send_command: "if self.serial_port and self.serial_port.is_open"
CtlSendCheck(i) ==
    /\ Running
    /\ ctl[i] = "send"
    /\ IF serial_port = "open"
       THEN /\ ctl' = [ctl EXCEPT ![i] = "write"]
            /\ UNCHANGED pending
       ELSE /\ ctl' = [ctl EXCEPT ![i] = AfterSend(pending[i] - 1)]
            /\ pending' = [pending EXCEPT ![i] = @ - 1]
    /\ UNCHANGED <<serial_port, stop_threads, rdr, main, closedWrite,
                   writeFailed, sessions, ctlVars, pidVars>>

\* send_command: "self.serial_port.write(...)" after the test has passed.
\* On the open port the write succeeds (ok) or raises SerialException; on a
\* port closed since the test it raises PortNotOpenError, a SerialException;
\* both are handled by calling disconnect.  When serial_port is None by now
\* the attribute access raises AttributeError, which nothing catches.
CtlWrite(i, ok) ==
    /\ Running
    /\ ctl[i] = "write"
    /\ IF serial_port = "open"
       THEN IF ok
            THEN /\ ctl' = [ctl EXCEPT ![i] = AfterSend(pending[i] - 1)]
                 /\ pending' = [pending EXCEPT ![i] = @ - 1]
                 /\ UNCHANGED <<closedWrite, writeFailed>>
            ELSE /\ ctl' = [ctl EXCEPT ![i] = "x_stop"]
                 /\ writeFailed' = i
                 /\ UNCHANGED <<pending, closedWrite>>
       ELSE IF serial_port = "closed"
            THEN /\ ctl' = [ctl EXCEPT ![i] = "x_stop"]
                 /\ closedWrite' = TRUE
                 /\ UNCHANGED <<pending, writeFailed>>
            ELSE /\ ctl' = [ctl EXCEPT ![i] = "crashed"]
                 /\ UNCHANGED <<pending, closedWrite, writeFailed>>
    /\ UNCHANGED <<serial_port, stop_threads, rdr, main, sessions, ctlVars,
                   pidVars>>

\* disconnect called by a controller thread: stop_threads.set()
CtlSetStop(i) ==
    /\ Running
    /\ ctl[i] = "x_stop"
    /\ stop_threads' = TRUE
    /\ ctl' = [ctl EXCEPT ![i] = "x_join_ctl"]
    /\ UNCHANGED <<serial_port, rdr, main, pending, closedWrite, writeFailed,
                   sessions, ctlVars, pidVars>>

\* disconnect called by a controller thread: "if self.controller_thread and
\* self.controller_thread.is_alive(): self.controller_thread.join(timeout=1)".
\* controller_thread is the thread of the last connect; join raises
\* RuntimeError when it is the calling thread, and nothing catches it.
CtlJoinCtl(i) ==
    /\ Running
    /\ ctl[i] = "x_join_ctl"
    /\ ctl' = [ctl EXCEPT ![i] = IF sessions = i THEN "crashed"
                                 ELSE "x_join_rdr"]
    /\ UNCHANGED <<serial_port, stop_threads, rdr, main, pending, closedWrite,
                   writeFailed, sessions, ctlVars, pidVars>>

\* disconnect called by a controller thread: the join of the reader thread
CtlJoinRdr(i) ==
    /\ Running
    /\ ctl[i] = "x_join_rdr"
    /\ ctl' = [ctl EXCEPT ![i] = "x_close"]
    /\ UNCHANGED <<serial_port, stop_threads, rdr, main, pending, closedWrite,
                   writeFailed, sessions, ctlVars, pidVars>>

\* disconnect called by a controller thread: the close of the port
CtlClose(i) ==
    /\ Running
    /\ ctl[i] = "x_close"
    /\ serial_port' = IF serial_port = "open" THEN "closed" ELSE serial_port
    /\ ctl' = [ctl EXCEPT ![i] = "x_release"]
    /\ UNCHANGED <<stop_threads, rdr, main, pending, closedWrite, writeFailed,
                   sessions, ctlVars, pidVars>>

\* disconnect called by a controller thread: self.serial_port = None, and
\* the return into the loop iteration
CtlRelease(i) ==
    /\ Running
    /\ ctl[i] = "x_release"
    /\ serial_port' = "none"
    /\ ctl' = [ctl EXCEPT ![i] = AfterSend(pending[i] - 1)]
    /\ pending' = [pending EXCEPT ![i] = @ - 1]
    /\ UNCHANGED <<stop_threads, rdr, main, closedWrite, writeFailed,
                   sessions, ctlVars, pidVars>>

\* read_from_serial: the tests of stop_threads and of the port.  With the
\* port not open the thread sleeps and tests again.
RdrLoop(i) ==
    /\ Running
    /\ rdr[i] = "loop"
    /\ rdr' = [rdr EXCEPT ![i] = IF stop_threads THEN "done"
                                 ELSE IF serial_port = "open" THEN "read"
                                 ELSE "loop"]
    /\ UNCHANGED <<serial_port, stop_threads, ctl, main, pending, closedWrite,
                   writeFailed, sessions, ctlVars, pidVars>>

\* read_from_serial: readline() after the test has passed.  On the open
\* port it returns (ok), or raises an exception that ends the loop; on a
\* port closed or released since the test it raises an exception that the
\* loop catches (ok) or that it does not catch.
RdrRead(i, ok) ==
    /\ Running
    /\ rdr[i] = "read"
    /\ rdr' = [rdr EXCEPT ![i] =
                  IF serial_port = "open"
                  THEN (IF ok THEN "loop" ELSE "done")
                  ELSE (IF ok THEN "done" ELSE "crashed")]
    /\ UNCHANGED <<serial_port, stop_threads, ctl, main, pending, closedWrite,
                   writeFailed, sessions, ctlVars, pidVars>>

LifeNext ==
    \/ ConnectOpen
    \/ ConnectStart
    \/ \E kind \in {"d", "c"} : MainSetStop(kind)
    \/ MainJoinCtl
    \/ MainJoinRdr
    \/ MainClose
    \/ MainRelease
    \/ \E i \in Threads, found \in BOOLEAN : CtlStart(i, found)
    \/ \E i \in Threads, n \in 0..MaxSends : CtlLoop(i, n)
    \/ \E i \in Threads : CtlQuit(i)
    \/ \E i \in Threads : CtlSendCheck(i)
    \/ \E i \in Threads, ok \in BOOLEAN : CtlWrite(i, ok)
    \/ \E i \in Threads : CtlSetStop(i)
    \/ \E i \in Threads : CtlJoinCtl(i)
    \/ \E i \in Threads : CtlJoinRdr(i)
    \/ \E i \in Threads : CtlClose(i)
    \/ \E i \in Threads : CtlRelease(i)
    \/ \E i \in Threads : RdrLoop(i)
    \/ \E i \in Threads, ok \in BOOLEAN : RdrRead(i, ok)

LifeSpec == Init /\ [][LifeNext]_vars

\* C8 as stated: when a write on the open port has failed in a control
\* tick, the stop signal is set once the failure is handled, the controller
\* thread has not crashed, and once both flows have ended the serial handle
\* is closed and released.
C8_WriteFailureDisconnects ==
    writeFailed # 0 =>
        /\ ctl[writeFailed] # "crashed"
        /\ ctl[writeFailed] \in {"loop", "send", "done"} => stop_threads
        /\ (\A i \in Threads : ~ Alive(ctl[i]) /\ ~ Alive(rdr[i]))
               => serial_port = "none"

\* C9 as stated: no write is ever performed on a closed serial handle.
C9_NoWriteOnClosed == ~ closedWrite

---------------------------------------------------------------------------
(* The life-cycle specification under fair scheduling: a thread that can   *)
(* take its next step takes it in the end, and so does the GUI thread in   *)
(* the middle of connect, disconnect or on_closing.  Nothing makes the     *)
(* operator click or an event arrive.                                      *)

LifeFairness ==
    /\ WF_vars(ConnectStart)
    /\ WF_vars(MainJoinCtl)
    /\ WF_vars(MainJoinRdr)
    /\ WF_vars(MainClose)
    /\ WF_vars(MainRelease)
    /\ \A i \in Threads :
          /\ WF_vars(\E found \in BOOLEAN : CtlStart(i, found))
          /\ WF_vars(\E n \in 0..MaxSends : CtlLoop(i, n))
          /\ WF_vars(CtlSendCheck(i))
          /\ WF_vars(\E ok \in BOOLEAN : CtlWrite(i, ok))
          /\ WF_vars(CtlSetStop(i))
          /\ WF_vars(CtlJoinCtl(i))
          /\ WF_vars(CtlJoinRdr(i))
          /\ WF_vars(CtlClose(i))
          /\ WF_vars(CtlRelease(i))
          /\ WF_vars(RdrLoop(i))
          /\ WF_vars(\E ok \in BOOLEAN : RdrRead(i, ok))

LifeFairSpec == LifeSpec /\ LifeFairness

\* the flow is over: its thread has returned or died, or the process has
Ended(pc) == ~ Alive(pc) \/ ~ Running

\* C16 as stated: once the stop signal is set, every control-tick flow and
\* every telemetry-reading flow that is alive eventually ends.
C16_StopEndsFlows ==
    \A i \in Threads :
        /\ (stop_threads /\ Alive(ctl[i])) ~> Ended(ctl[i])
        /\ (stop_threads /\ Alive(rdr[i])) ~> Ended(rdr[i])

\* the threads of one kind that are alive
AliveThreads(pcs) == {i \in Threads : Alive(pcs[i])}

\* C25: across any sequence of connect and disconnect, at most one
\* controller thread and at most one serial reader thread are alive while
\* the process runs: no thread of an earlier connection runs next to the
\* threads that a later connect has started.
C25_OneFlowPerKind ==
    Running =>
        /\ Cardinality(AliveThreads(ctl)) <= 1
        /\ Cardinality(AliveThreads(rdr)) <= 1

---------------------------------------------------------------------------
(* Properties of the PIDController under test *)

\* the fraction out lies within output_limits
WithinLimits(out) ==
    /\ out[2] > 0
    /\ OutMin * out[2] <= out[1]
    /\ out[1] <= OutMax * out[2]

\* C11: under every sequence of set_setpoint and update calls, with any
\* reading and any time between calls, each value returned by update lies
\* within output_limits: -255 <= output <= 255.
C11_OutputWithinLimits == WithinLimits(pidRet)

\* update has returned the upper limit while integral_error has grown past
\* what one update adds to it
C11_Witness ==
    /\ pidOp.op = "update"
    /\ pidUpdates >= 3
    /\ pidRet = <<OutMax, 1>>
    /\ pidT.integral_error > 600 * 5

\* the step is a call of update at the time held in last_time (dt = 0)
IsZeroDtUpdate ==
    IsUpdate /\ pidT.last_time # None /\ pidClock' = pidT.last_time

\* C22: an update made at the very time held in last_time (dt = 0) returns
\* 0 and leaves setpoint, integral_error, last_error and last_time as they
\* were, so the division by dt is never reached.
C22_ZeroDtNoChange ==
    [][IsZeroDtUpdate => pidRet'[1] = 0 /\ pidT' = pidT]_vars

\* an update away from the setpoint, made after the controller had
\* accumulated an integral, has returned 0 without recording its error:
\* it was not the first update since set_setpoint, so its dt was 0
C22_Witness ==
    /\ pidOp.op = "update"
    /\ pidUpdates >= 3
    /\ pidT.last_time = pidClock
    /\ pidT.integral_error # 0
    /\ pidT.last_error # 0
    /\ pidT.last_error # pidT.setpoint - pidOp.arg
    /\ pidRet[1] = 0

\* the step is a call of set_setpoint
IsSetSetpoint == pidCalls' # pidCalls /\ pidOp'.op = "set_setpoint"

\* C23: set_setpoint(v) leaves the controller with setpoint v,
\* integral_error 0, last_error 0 and last_time unset, whatever its state
\* was; and in every reachable state last_time is unset exactly when no
\* update has been called since construction or the last set_setpoint.
C23_SetSetpointResets ==
    /\ [](pidT.last_time = None <=> pidUpdates = 0)
    /\ [][IsSetSetpoint => pidT' = Primed(pidOp'.arg)]_vars

\* set_setpoint with a new setpoint has been called on a controller whose
\* two updates had returned a non-zero output (so integral_error,
\* last_error and last_time were set)
C23_Witness ==
    /\ pidOp.op = "set_setpoint"
    /\ pidCalls = 3
    /\ pidUpdates = 0
    /\ pidRet[1] # 0
    /\ pidOp.arg # 0
    /\ pidT = Primed(pidOp.arg)

---------------------------------------------------------------------------
(* The decoder specification: the GUI thread handles any sequence of       *)
(* update_encoders messages, whose lines hold well-formed and malformed    *)
(* parts at the start, in the middle and at the end                        *)

\* the parts that can stand for part k of a frame and that are not
\* "key:number" with a key of encoder_map.  Only a part that begins with
\* "E1:" can come first: read_from_serial queues no other line.
BadParts(k) ==
    {<<EKey[k], Bad("bad")>>, <<EKey[k], Num(7), Num(8)>>}
    \cup (IF k = 1 THEN {}
          ELSE {<<EKey[k]>>, <<"Ex", Num(7)>>, <<"E7", Num(7)>>,
                <<"E0", Num(7)>>, <<"X1", Num(7)>>})

\* lines of the arm and lines damaged on the way
DecodeLines ==
    LET frames == {Frame(10, 20, 30, 40, 50, 60), Frame(-1, -2, -3, -4, -5, -6)}
    IN frames
       \cup {[f EXCEPT ![k] = b] : <<f, k, b>> \in
                 UNION {{<<f, k, b>> : b \in BadParts(k)} :
                            <<f, k>> \in frames \X {1, 2, 6}}}
       \cup {<<<<"E1", Num(10)>>>>,
             <<<<"E1", Num(10)>>, <<"E3", Num(33)>>, <<"E3", Bad("")>>>>}

DecodeNext == \E data \in DecodeLines : process_gui_queue(data)

DecodeSpec == Init /\ [][DecodeNext]_vars

\* the step is the handling of one update_encoders message
IsTelemetry == steps' # steps /\ now' = now

\* the axis whose position a key stands for
AxisOfKey(key) ==
    CASE key = "E1" -> "M1" [] key = "E2" -> "M2" [] key = "E3" -> "M3"
      [] key = "E4" -> "M4" [] key = "E5" -> "S2" [] key = "E6" -> "S3"

\* a part "key:number" with a recognized key
WellFormed(part) ==
    /\ Len(part) = 2
    /\ part[1] \in {"E1", "E2", "E3", "E4", "E5", "E6"}
    /\ part[2][1] = "int"

\* the places of line data that hold a well-formed part for axis m
PartsFor(data, m) ==
    {i \in 1..Len(data) : WellFormed(data[i]) /\ AxisOfKey(data[i][1]) = m}

\* the largest element of a non-empty set of numbers
Last(S) == CHOOSE i \in S : \A j \in S : j <= i

\* C13: decoding a line sets the position of every axis that has a
\* well-formed part in the line (to the value of the last such part) and
\* leaves every other position unchanged: a malformed part changes no
\* position and does not keep the other parts from being applied.
C13_TokensIndependent ==
    [][IsTelemetry =>
          \A m \in HoldMotors :
              current_encoders'[m] =
                  IF PartsFor(lastLine', m) = {} THEN current_encoders[m]
                  ELSE lastLine'[Last(PartsFor(lastLine', m))][2][2]]_vars

\* a line with a malformed part in the middle has been decoded: the
\* position of the axis of that part is still the one of an earlier line,
\* and the parts before and after it have been applied
C13_Witness ==
    /\ Len(lastLine) = 6
    /\ ~ WellFormed(lastLine[2])
    /\ WellFormed(lastLine[1]) /\ WellFormed(lastLine[3])
    /\ current_encoders["M1"] = lastLine[1][2][2]
    /\ current_encoders["M3"] = lastLine[3][2][2]
    /\ current_encoders["M2"] # 0
    /\ current_encoders["M2"] * current_encoders["M1"] < 0

\* C17: handling a telemetry line changes only current_encoders: it leaves
\* the enabled and target fields, the PID states, the debounce timestamps
\* and the last-sent commands as they are and writes no command; and the
\* enabled and target fields change only in a loop iteration of the
\* control-tick flow.
C17_TelemetryWritesPositionsOnly ==
    [][/\ IsTelemetry =>
             /\ pid_states' = pid_states
             /\ pid_controllers' = pid_controllers
             /\ last_press_times' = last_press_times
             /\ all_motors_zero_active' = all_motors_zero_active
             /\ last_commands' = last_commands
             /\ wire' = wire
             /\ writes' = writes
       /\ pid_states' # pid_states => IsIteration]_vars

\* a telemetry line has moved an axis in hold mode away from its target
\* since the last loop iteration: the axis still has its target and the
\* stop command that the iteration resolved within the deadband
C17_Witness ==
    \E m \in HoldMotors :
        /\ lastLine # <<>>
        /\ pid_states[m].enabled
        /\ pid_states[m].target # 0
        /\ Abs(pid_states[m].target - current_encoders[m]) > PID_TARGET_THRESHOLD
        /\ pid_controllers[m].last_time = now
        /\ last_commands[m] = StopCmd(m)
        /\ wire[m] = StopCmd(m)

==========================================================================
